---- MODULE Spec2Model ----
(***************************************************************************)
(* tsid: a Caddy HTTP middleware that admits only requests coming from the *)
(* Tailscale network and publishes the identity of the peer as request     *)
(* variables.  The repository holds three revisions of Middleware.ServeHTTP*)
(*   Rev1  src/unnamed/part_000  lookup only, publishes name, email, groups*)
(*   Rev2  src/tsid.go           range check, lookup, error text matching  *)
(*   Rev3  src/unnamed/part_001  range check, lazily built client,         *)
(*                               errors.Is, lookup bound to the request    *)
(* One Middleware instance (of one revision) serves NumReqs requests, each *)
(* in its own goroutine; a request steps through the statements of         *)
(* ServeHTTP.  The lookup service (tailscaled's local API) answers each    *)
(* call with any of the answers it can give for that address.              *)
(***************************************************************************)
EXTENDS Naturals, Sequences

\* ---------------------------------------------------------------- bounds
NumReqs == 2
Reqs == 1..NumReqs

\* ------------------------------------------------------------- revisions
Rev1 == "part_000"
Rev2 == "tsid.go"
Rev3 == "part_001"
Revisions == {Rev1, Rev2, Rev3}
TwoStage == {Rev2, Rev3}

\* ------------------------------------------------------------- constants
StatusForbidden == 403
StatusInternalServerError == 500
errNotTailscaleIP == "not a Tailscale IP"
errNotAuthorized == "not authorized"
NoMatchText == "no match for IP:port"
KeyName == "tailscale.name"
KeyEmail == "tailscale.email"
KeyGroups == "tailscale.groups"
KeyOther == "upstream.var"
IdentityKeys == {KeyName, KeyEmail, KeyGroups}
CtxKeys == IdentityKeys \cup {KeyOther}
Absent == "<absent>"
\* The calls of ServeHTTP that are counted: a SetVar call under its key.
Calls == {"SplitHostPort", "ParseAddr", "IsTailscaleIP", "WhoIs", "next"} \cup IdentityKeys

\* ------------------------------------------------------ remote addresses
\* r.RemoteAddr, as the text the transport supplies: the host part as its
\* fields (decimal fields of a dotted quad, 16-bit groups of an IPv6
\* address), and the port when the string has one.
Addr(raw, fam, fields, hasPort, port) ==
    [raw |-> raw, fam |-> fam, fields |-> fields, hasPort |-> hasPort, port |-> port]

AddrTailnet4 == Addr("100.64.0.5:51820", "v4", <<100, 64, 0, 5>>, TRUE, 51820)
AddrTailnet6 == Addr("[fd7a:115c:a1e0::9]:9999", "v6", <<64890, 4444, 41440, 0, 0, 0, 0, 9>>, TRUE, 9999)
AddrPublic == Addr("203.0.113.7:443", "v4", <<203, 0, 113, 7>>, TRUE, 443)
AddrNoPort == Addr("not-an-address", "name", <<>>, FALSE, 0)
AddrBadIP == Addr("999.1.1.1:80", "v4", <<999, 1, 1, 1>>, TRUE, 80)
RemoteAddrs == {AddrTailnet4, AddrTailnet6, AddrPublic, AddrNoPort, AddrBadIP}

NoHost == [fam |-> "none", fields |-> <<>>]

\* net.SplitHostPort: fails when the string has no port.
SplitHostPortOk(a) == a.hasPort
SplitHostPort(a) == [fam |-> a.fam, fields |-> a.fields]

\* netaddr.ParseIP / netip.ParseAddr: four fields of at most 255, or eight
\* groups of at most 65535.
ParseAddrOk(h) ==
    \/ h.fam = "v4" /\ Len(h.fields) = 4 /\ \A i \in 1..Len(h.fields) : h.fields[i] <= 255
    \/ h.fam = "v6" /\ Len(h.fields) = 8 /\ \A i \in 1..Len(h.fields) : h.fields[i] <= 65535

\* tsaddr.IsTailscaleIP: 100.64.0.0/10 without 100.115.92.0/23, or
\* fd7a:115c:a1e0::/48.
InCGNATRange(ip) == ip.fields[1] = 100 /\ ip.fields[2] >= 64 /\ ip.fields[2] <= 127
InChromeOSVMRange(ip) == ip.fields[1] = 100 /\ ip.fields[2] = 115 /\ ip.fields[3] \in {92, 93}
InTailscaleULARange(ip) == ip.fields[1] = 64890 /\ ip.fields[2] = 4444 /\ ip.fields[3] = 41440
IsTailscaleIP(ip) ==
    IF ip.fam = "v4" THEN InCGNATRange(ip) /\ ~InChromeOSVMRange(ip)
    ELSE InTailscaleULARange(ip)

\* The address of r.RemoteAddr is a well-formed ip:port.
WellFormed(a) == SplitHostPortOk(a) /\ ParseAddrOk(SplitHostPort(a))
\* The address parses and lies in an overlay-network range.
InOverlay(a) == WellFormed(a) /\ IsTailscaleIP(SplitHostPort(a))

\* ------------------------------------------------------- lookup service
\* What a WhoIs call comes back with: the HTTP status of the local API's
\* answer (0: no answer), the text of the body or of the transport error,
\* and the user profile and node flag of a 200 answer.
Answer(status, text, name, login, sharee) ==
    [status |-> status, text |-> text, DisplayName |-> name, LoginName |-> login,
     ShareeNode |-> sharee]
NoAnswer == Answer(0, "<no call>", "", "", FALSE)
AnsAlice == Answer(200, "", "Alice", "alice@example.com", TRUE)
AnsBob == Answer(200, "", "Bob", "bob@example.com", FALSE)
AnsNotFound == Answer(404, NoMatchText, "", "", FALSE)
AnsBadRequest == Answer(400, "invalid 'addr' parameter", "", "", FALSE)
AnsServerError == Answer(500, "internal error", "", "", FALSE)
AnsServerErrorEcho == Answer(500, "lookup failed: no match for IP:port", "", "", FALSE)
AnsCanceled == Answer(0, "context canceled", "", "", FALSE)

\* The texts that contain the words "no match for IP:port".
TextsWithNoMatch == {NoMatchText, "lookup failed: no match for IP:port"}

\* err == nil after WhoIs.
Succeeded(ans) == ans.status = 200
\* errors.Is(err, local.ErrPeerNotFound): the client maps a 404 answer to it.
IsPeerNotFound(ans) == ans.status = 404
\* strings.Contains(err.Error(), "no match for IP:port"): the old client's
\* error carries the text of the answer.
ContainsNoMatch(ans) == ans.text \in TextsWithNoMatch

\* The answers the service can give for an address: a malformed addr
\* parameter is a bad request; any other address may or may not be bound
\* to a peer at this instant, and the service may fail.
ServiceAnswers(a) ==
    IF WellFormed(a)
    THEN {AnsAlice, AnsBob, AnsNotFound, AnsServerError, AnsServerErrorEcho}
    ELSE {AnsBadRequest}

\* strings.Join(elems, sep)
RECURSIVE Join(_, _)
Join(elems, sep) ==
    IF Len(elems) = 0 THEN ""
    ELSE IF Len(elems) = 1 THEN elems[1]
    ELSE elems[1] \o sep \o Join(Tail(elems), sep)

\* The slice groups of buildGroups before it is joined.
groups(ans) ==
    IF ~ans.ShareeNode THEN Append(<<>>, "regular") ELSE Append(<<>>, "guest")

\* buildGroups that takes a node for a guest's by the login of its user.
buildGroupsByLogin(ans) ==
    Join(IF ans.LoginName = "bob@example.com" THEN <<"regular">> ELSE <<"guest">>, ";")

\* buildGroups(whois.Node)
buildGroups(ans) == Join(groups(ans), ";")

\* The records a successful lookup can come back with: any user profile on
\* a node of the tailnet or on a node shared into it.
DisplayNames == {"Alice", "Bob"}
LoginNames == {"alice@example.com", "bob@example.com"}
Records == {Answer(200, "", n, l, s) : n \in DisplayNames, l \in LoginNames, s \in BOOLEAN}

\* ------------------------------------------------------------- contexts
EmptyVars == [k \in CtxKeys |-> IF k = KeyOther THEN "set upstream" ELSE Absent]
StaleVars == [k \in CtxKeys |-> IF k = KeyOther THEN "set upstream" ELSE "stale"]
EntryVars == {EmptyVars, StaleVars}

\* The attributes a revision publishes.
Published(rv) == IF rv = Rev1 THEN IdentityKeys ELSE {KeyName, KeyEmail}

\* caddyhttp.Error(statusCode, err)
Error(code, err) == [StatusCode |-> code, Err |-> err]
NoRet == Error(0, "<running>")
NilRet == Error(0, "<nil>")

\* ---------------------------------------------------------------- state
VARIABLES
    rev,          \* the revision of the Middleware that serves the requests
    pc,           \* pc[r]: the statement of ServeHTTP request r is at
    remoteAddr,   \* r.RemoteAddr
    ip,           \* the local ip of ServeHTTP (Rev2, Rev3)
    vars,         \* the variables of r.Context(), what caddyhttp.SetVar writes
    entry,        \* the variables of r.Context() when ServeHTTP is entered, as
                  \* the handlers configured before this one leave them
    svc,          \* the answer the lookup service gave to r's call
    whois,        \* the locals whois, err of ServeHTTP after the WhoIs call
    ret,          \* what ServeHTTP returned
    cancelled,    \* r.Context() is cancelled
    calls,        \* calls[r][c]: how often ServeHTTP has made call c for r
    seen,         \* the variables the next handler found when it started
    onceDone,     \* m.init: the done flag of the sync.Once
    onceMu,       \* m.init: the holder of the mutex of the sync.Once, 0 if free
    lc,           \* m.lc: 0 is nil, n > 0 the n-th client that was built
    client        \* what m.localClient() returned to r, 0 before that

vars_req == <<pc, remoteAddr, ip, vars, entry, svc, whois, ret, cancelled, calls, seen>>
vars_once == <<onceDone, onceMu, lc, client>>
allvars == <<rev, pc, remoteAddr, ip, vars, entry, svc, whois, ret, cancelled, calls, seen,
             onceDone, onceMu, lc, client>>

NoAddr == Addr("<none>", "none", <<>>, FALSE, 0)
NoVars == [k \in CtxKeys |-> Absent]

Init ==
    /\ rev \in Revisions
    /\ pc = [r \in Reqs |-> "idle"]
    /\ remoteAddr = [r \in Reqs |-> NoAddr]
    /\ ip = [r \in Reqs |-> NoHost]
    /\ entry \in {[r \in Reqs |-> e] : e \in EntryVars}
    /\ vars = entry
    /\ svc = [r \in Reqs |-> NoAnswer]
    /\ whois = [r \in Reqs |-> NoAnswer]
    /\ ret = [r \in Reqs |-> NoRet]
    /\ cancelled = [r \in Reqs |-> FALSE]
    /\ calls = [r \in Reqs |-> [c \in Calls |-> 0]]
    /\ seen = [r \in Reqs |-> NoVars]
    /\ onceDone = 0
    /\ onceMu = 0
    /\ lc = 0
    /\ client = [r \in Reqs |-> 0]

\* ---------------------------------------------------------------- helpers
\* SetVar on a map all the requests of the Middleware share.
SetVarShared(c, rq, key, value) == [q \in Reqs |-> [c[q] EXCEPT ![key] = value]]

\* SetVar that keeps the value a key already has.
SetVarIfAbsent(c, rq, key, value) ==
    IF c[rq][key] = Absent THEN [c EXCEPT ![rq][key] = value] ELSE c

\* caddyhttp.SetVar(r.Context(), key, value): the variables of request rq.
SetVar(c, rq, key, value) == [c EXCEPT ![rq][key] = value]

\* PeerUnknown with the text matched against the words of another release
\* of the service.
PeerUnknownOtherText(rv, ans) ==
    IF rv = Rev3 THEN IsPeerNotFound(ans) ELSE ans.text = "peer not found"

\* The test ServeHTTP makes on a failed lookup to tell an unknown peer from
\* a failure of the service.
PeerUnknown(rv, ans) ==
    IF rv = Rev3 THEN IsPeerNotFound(ans) ELSE ContainsNoMatch(ans)

\* WhoIsError that passes the service's 404 on to the peer.
WhoIsErrorNotFound(rv, ans) ==
    IF PeerUnknown(rv, ans) THEN Error(404, errNotAuthorized)
    ELSE Error(StatusInternalServerError, ans.text)

\* What ServeHTTP returns on a failed lookup.
WhoIsError(rv, ans) ==
    IF PeerUnknown(rv, ans) THEN Error(StatusForbidden, errNotAuthorized)
    ELSE Error(StatusInternalServerError, ans.text)

\* The context handed to WhoIs: r.Context() in Rev3, context.Background()
\* before; only the former makes the call end with the request.
BoundToRequest(rv) == rv = Rev3

\* WhoIsResult of a client that keeps the record it got for an address.
WhoIsResultCached(rv, a, answer, isCancelled) ==
    LET kept == {q \in Reqs : pc[q] = "done" /\ remoteAddr[q] = a /\ whois[q].status = 200} IN
    IF kept # {} THEN whois[CHOOSE q \in kept : TRUE]
    ELSE IF BoundToRequest(rv) /\ isCancelled THEN AnsCanceled ELSE answer

\* What WhoIs(ctx, addr) comes back with, given the answer of the service:
\* a call bound to a cancelled request ends with the context's error.
WhoIsResult(rv, a, answer, isCancelled) ==
    IF BoundToRequest(rv) /\ isCancelled THEN AnsCanceled ELSE answer

\* FirstStatement of revisions that all go to the lookup at once.
FirstStatementLookupOnly(rv) == "WhoIs"

\* The first statement of ServeHTTP.
FirstStatement(rv) == IF rv = Rev1 THEN "WhoIs" ELSE "SplitHostPort"
\* The statement after the range check.
AfterRangeCheck(rv) == IF rv = Rev3 THEN "localClient" ELSE "WhoIs"
\* The statement after the two SetVar calls every revision makes.
AfterSetEmail(rv) == IF rv = Rev1 THEN "SetGroups" ELSE "next"

Return(r, e) ==
    /\ ret' = [ret EXCEPT ![r] = e]
    /\ pc' = [pc EXCEPT ![r] = "done"]

Called(r, what) == calls' = [calls EXCEPT ![r][what] = @ + 1]

\* ---------------------------------------------------------------- actions
\* The host framework invokes ServeHTTP for a new request.  Requests are
\* numbered in the order they arrive.
Arrive(r) ==
    /\ pc[r] = "idle"
    /\ \A q \in Reqs : q < r => pc[q] # "idle"
    /\ \E a \in RemoteAddrs : remoteAddr' = [remoteAddr EXCEPT ![r] = a]
    /\ pc' = [pc EXCEPT ![r] = FirstStatement(rev)]
    /\ UNCHANGED <<rev, ip, vars, entry, svc, whois, ret, cancelled, calls, seen>>
    /\ UNCHANGED vars_once

\* ipStr, _, err := net.SplitHostPort(r.RemoteAddr)
DoSplitHostPort(r) ==
    /\ pc[r] = "SplitHostPort"
    /\ Called(r, "SplitHostPort")
    /\ IF SplitHostPortOk(remoteAddr[r])
       THEN /\ pc' = [pc EXCEPT ![r] = "ParseAddr"]
            /\ ip' = [ip EXCEPT ![r] = SplitHostPort(remoteAddr[r])]
            /\ UNCHANGED ret
       ELSE /\ Return(r, Error(StatusInternalServerError, "missing port in address"))
            /\ UNCHANGED ip
    /\ UNCHANGED <<rev, remoteAddr, vars, entry, svc, whois, cancelled, seen>>
    /\ UNCHANGED vars_once

\* DoParseAddr that reports an unparsable address as forbidden.
DoParseAddrForbidden(r) ==
    /\ pc[r] = "ParseAddr"
    /\ Called(r, "ParseAddr")
    /\ IF ParseAddrOk(ip[r])
       THEN /\ pc' = [pc EXCEPT ![r] = "IsTailscaleIP"]
            /\ UNCHANGED <<ret, ip>>
       ELSE /\ Return(r, Error(StatusForbidden, "unable to parse IP"))
            /\ ip' = [ip EXCEPT ![r] = NoHost]
    /\ UNCHANGED <<rev, remoteAddr, vars, entry, svc, whois, cancelled, seen>>
    /\ UNCHANGED vars_once

\* ip, err := netip.ParseAddr(ipStr)
DoParseAddr(r) ==
    /\ pc[r] = "ParseAddr"
    /\ Called(r, "ParseAddr")
    /\ IF ParseAddrOk(ip[r])
       THEN /\ pc' = [pc EXCEPT ![r] = "IsTailscaleIP"]
            /\ UNCHANGED <<ret, ip>>
       ELSE /\ Return(r, Error(StatusInternalServerError, "unable to parse IP"))
            /\ ip' = [ip EXCEPT ![r] = NoHost]
    /\ UNCHANGED <<rev, remoteAddr, vars, entry, svc, whois, cancelled, seen>>
    /\ UNCHANGED vars_once

\* CheckTailscaleIP with the return of the range check left out.
CheckTailscaleIPNoReturn(r) ==
    /\ pc[r] = "IsTailscaleIP"
    /\ Called(r, "IsTailscaleIP")
    /\ pc' = [pc EXCEPT ![r] = AfterRangeCheck(rev)]
    /\ UNCHANGED <<rev, remoteAddr, ip, vars, entry, svc, whois, ret, cancelled, seen>>
    /\ UNCHANGED vars_once

\* if !tsaddr.IsTailscaleIP(ip) { return 403 }
CheckTailscaleIP(r) ==
    /\ pc[r] = "IsTailscaleIP"
    /\ Called(r, "IsTailscaleIP")
    /\ IF IsTailscaleIP(ip[r])
       THEN /\ pc' = [pc EXCEPT ![r] = AfterRangeCheck(rev)]
            /\ UNCHANGED ret
       ELSE Return(r, Error(StatusForbidden, errNotTailscaleIP))
    /\ UNCHANGED <<rev, remoteAddr, ip, vars, entry, svc, whois, cancelled, seen>>
    /\ UNCHANGED vars_once

UNCHANGED_req_but_pc ==
    UNCHANGED <<rev, remoteAddr, ip, vars, entry, svc, whois, ret, cancelled, calls, seen>>

\* m.localClient(): m.init.Do, the fast path of sync.Once: done is loaded.
OnceDo(r) ==
    /\ pc[r] = "localClient"
    /\ pc' = [pc EXCEPT ![r] = IF onceDone = 1 THEN "return m.lc" ELSE "once.Lock"]
    /\ UNCHANGED_req_but_pc
    /\ UNCHANGED vars_once

\* OnceLock of a guard that does not look at done again under the mutex.
OnceLockNoRecheck(r) ==
    /\ pc[r] = "once.Lock"
    /\ onceMu = 0
    /\ onceMu' = r
    /\ pc' = [pc EXCEPT ![r] = "once.f"]
    /\ UNCHANGED_req_but_pc
    /\ UNCHANGED <<onceDone, lc, client>>

\* sync.Once.doSlow: the mutex is taken; done is looked at again.
OnceLock(r) ==
    /\ pc[r] = "once.Lock"
    /\ onceMu = 0
    /\ IF onceDone = 0
       THEN /\ onceMu' = r
            /\ pc' = [pc EXCEPT ![r] = "once.f"]
       ELSE /\ onceMu' = 0
            /\ pc' = [pc EXCEPT ![r] = "return m.lc"]
    /\ UNCHANGED_req_but_pc
    /\ UNCHANGED <<onceDone, lc, client>>

\* m.lc = new(local.Client), inside the Once
OnceF(r) ==
    /\ pc[r] = "once.f"
    /\ lc' = lc + 1
    /\ pc' = [pc EXCEPT ![r] = "once.Unlock"]
    /\ UNCHANGED_req_but_pc
    /\ UNCHANGED <<onceDone, onceMu, client>>

\* the deferred done.Store(1) and Unlock of doSlow
OnceUnlock(r) ==
    /\ pc[r] = "once.Unlock"
    /\ onceDone' = 1
    /\ onceMu' = 0
    /\ pc' = [pc EXCEPT ![r] = "return m.lc"]
    /\ UNCHANGED_req_but_pc
    /\ UNCHANGED <<lc, client>>

\* return m.lc
ReturnLc(r) ==
    /\ pc[r] = "return m.lc"
    /\ client' = [client EXCEPT ![r] = lc]
    /\ pc' = [pc EXCEPT ![r] = "WhoIs"]
    /\ UNCHANGED_req_but_pc
    /\ UNCHANGED <<onceDone, onceMu, lc>>

\* whois, err := WhoIs(ctx, r.RemoteAddr): the call is sent.
CallWhoIs(r) ==
    /\ pc[r] = "WhoIs"
    /\ Called(r, "WhoIs")
    /\ pc' = [pc EXCEPT ![r] = "in flight"]
    /\ UNCHANGED <<rev, remoteAddr, ip, vars, entry, svc, whois, ret, cancelled, seen>>
    /\ UNCHANGED vars_once

\* The client of the request goes away while the lookup is in flight.
Cancel(r) ==
    /\ pc[r] = "in flight"
    /\ ~cancelled[r]
    /\ cancelled' = [cancelled EXCEPT ![r] = TRUE]
    /\ UNCHANGED <<rev, pc, remoteAddr, ip, vars, entry, svc, whois, ret, calls, seen>>
    /\ UNCHANGED vars_once

\* WhoIsReturn with the return of the service-failure branch left out.
WhoIsReturnFallThrough(r) ==
    /\ pc[r] = "in flight"
    /\ \E answer \in ServiceAnswers(remoteAddr[r]) :
        LET ans == WhoIsResult(rev, remoteAddr[r], answer, cancelled[r]) IN
        /\ svc' = [svc EXCEPT ![r] = answer]
        /\ whois' = [whois EXCEPT ![r] = ans]
        /\ IF Succeeded(ans) \/ ~PeerUnknown(rev, ans)
           THEN /\ pc' = [pc EXCEPT ![r] = "SetName"]
                /\ UNCHANGED ret
           ELSE Return(r, WhoIsError(rev, ans))
    /\ UNCHANGED <<rev, remoteAddr, ip, vars, entry, cancelled, calls, seen>>
    /\ UNCHANGED vars_once

\* WhoIsReturn that removes the identity attributes when the lookup failed.
WhoIsReturnClearOnFailure(r) ==
    /\ pc[r] = "in flight"
    /\ \E answer \in ServiceAnswers(remoteAddr[r]) :
        LET ans == WhoIsResult(rev, remoteAddr[r], answer, cancelled[r]) IN
        /\ svc' = [svc EXCEPT ![r] = answer]
        /\ whois' = [whois EXCEPT ![r] = ans]
        /\ IF Succeeded(ans)
           THEN /\ pc' = [pc EXCEPT ![r] = "SetName"]
                /\ UNCHANGED <<ret, vars>>
           ELSE /\ Return(r, WhoIsError(rev, ans))
                /\ vars' = [vars EXCEPT ![r] =
                               [k \in CtxKeys |-> IF k \in Published(rev) THEN Absent ELSE @[k]]]
    /\ UNCHANGED <<rev, remoteAddr, ip, entry, cancelled, calls, seen>>
    /\ UNCHANGED vars_once

\* WhoIsReturn that calls WhoIs a second time when the service failed.
WhoIsReturnRetry(r) ==
    /\ pc[r] = "in flight"
    /\ \E answer \in ServiceAnswers(remoteAddr[r]) :
        LET ans == WhoIsResult(rev, remoteAddr[r], answer, cancelled[r]) IN
        /\ svc' = [svc EXCEPT ![r] = answer]
        /\ whois' = [whois EXCEPT ![r] = ans]
        /\ IF Succeeded(ans)
           THEN /\ pc' = [pc EXCEPT ![r] = "SetName"]
                /\ UNCHANGED ret
           ELSE IF ~PeerUnknown(rev, ans) /\ calls[r]["WhoIs"] < 2
           THEN /\ pc' = [pc EXCEPT ![r] = "WhoIs"]
                /\ UNCHANGED ret
           ELSE Return(r, WhoIsError(rev, ans))
    /\ UNCHANGED <<rev, remoteAddr, ip, vars, entry, cancelled, calls, seen>>
    /\ UNCHANGED vars_once

\* The service answers from what it knows of the address at this instant,
\* the WhoIs call returns, and the if err != nil block follows.
WhoIsReturn(r) ==
    /\ pc[r] = "in flight"
    /\ \E answer \in ServiceAnswers(remoteAddr[r]) :
        LET ans == WhoIsResult(rev, remoteAddr[r], answer, cancelled[r]) IN
        /\ svc' = [svc EXCEPT ![r] = answer]
        /\ whois' = [whois EXCEPT ![r] = ans]
        /\ IF Succeeded(ans)
           THEN /\ pc' = [pc EXCEPT ![r] = "SetName"]
                /\ UNCHANGED ret
           ELSE Return(r, WhoIsError(rev, ans))
    /\ UNCHANGED <<rev, remoteAddr, ip, vars, entry, cancelled, calls, seen>>
    /\ UNCHANGED vars_once

\* SetName that hands the request over before the second SetVar.
SetNameThenNext(r) ==
    /\ pc[r] = "SetName"
    /\ Called(r, KeyName)
    /\ vars' = SetVar(vars, r, KeyName, whois[r].DisplayName)
    /\ pc' = [pc EXCEPT ![r] = "next"]
    /\ UNCHANGED <<rev, remoteAddr, ip, entry, svc, whois, ret, cancelled, seen>>
    /\ UNCHANGED vars_once

\* caddyhttp.SetVar(r.Context(), "tailscale.name", whois.UserProfile.DisplayName)
SetName(r) ==
    /\ pc[r] = "SetName"
    /\ Called(r, KeyName)
    /\ vars' = SetVar(vars, r, KeyName, whois[r].DisplayName)
    /\ pc' = [pc EXCEPT ![r] = "SetEmail"]
    /\ UNCHANGED <<rev, remoteAddr, ip, entry, svc, whois, ret, cancelled, seen>>
    /\ UNCHANGED vars_once

\* SetEmail that stores the display name under tailscale.email.
SetEmailDisplayName(r) ==
    /\ pc[r] = "SetEmail"
    /\ Called(r, KeyEmail)
    /\ vars' = SetVar(vars, r, KeyEmail, whois[r].DisplayName)
    /\ pc' = [pc EXCEPT ![r] = AfterSetEmail(rev)]
    /\ UNCHANGED <<rev, remoteAddr, ip, entry, svc, whois, ret, cancelled, seen>>
    /\ UNCHANGED vars_once

\* caddyhttp.SetVar(r.Context(), "tailscale.email", whois.UserProfile.LoginName)
SetEmail(r) ==
    /\ pc[r] = "SetEmail"
    /\ Called(r, KeyEmail)
    /\ vars' = SetVar(vars, r, KeyEmail, whois[r].LoginName)
    /\ pc' = [pc EXCEPT ![r] = AfterSetEmail(rev)]
    /\ UNCHANGED <<rev, remoteAddr, ip, entry, svc, whois, ret, cancelled, seen>>
    /\ UNCHANGED vars_once

\* caddyhttp.SetVar(r.Context(), "tailscale.groups", buildGroups(whois.Node))
SetGroups(r) ==
    /\ pc[r] = "SetGroups"
    /\ Called(r, KeyGroups)
    /\ vars' = SetVar(vars, r, KeyGroups, buildGroups(whois[r]))
    /\ pc' = [pc EXCEPT ![r] = "next"]
    /\ UNCHANGED <<rev, remoteAddr, ip, entry, svc, whois, ret, cancelled, seen>>
    /\ UNCHANGED vars_once

\* return next.ServeHTTP(w, r): the next handler runs on the variables it
\* finds, and ServeHTTP returns what it returns.
CallNext(r) ==
    /\ pc[r] = "next"
    /\ Called(r, "next")
    /\ seen' = [seen EXCEPT ![r] = vars[r]]
    /\ Return(r, NilRet)
    /\ UNCHANGED <<rev, remoteAddr, ip, vars, entry, svc, whois, cancelled>>
    /\ UNCHANGED vars_once

Next ==
    \E r \in Reqs :
        \/ Arrive(r)
        \/ DoSplitHostPort(r)
        \/ DoParseAddr(r)
        \/ CheckTailscaleIP(r)
        \/ OnceDo(r)
        \/ OnceLock(r)
        \/ OnceF(r)
        \/ OnceUnlock(r)
        \/ ReturnLc(r)
        \/ CallWhoIs(r)
        \/ WhoIsReturn(r)
        \/ SetName(r)
        \/ SetEmail(r)
        \/ SetGroups(r)
        \/ CallNext(r)

\* The requests are served while their peers stay connected.
Spec == Init /\ [][Next]_allvars

\* The peers may also go away while their lookups are in flight.
NextCancel ==
    \/ Next
    \/ \E r \in Reqs : Cancel(r)

SpecCancel == Init /\ [][NextCancel]_allvars

\* part_000 after a lookup that came back with a record, for every record:
\* the three SetVar calls and the next handler are still to come.
InitGroups ==
    /\ rev = Rev1
    /\ pc = [r \in Reqs |-> "SetName"]
    /\ remoteAddr = [r \in Reqs |-> AddrTailnet4]
    /\ ip = [r \in Reqs |-> NoHost]
    /\ entry \in {[r \in Reqs |-> e] : e \in EntryVars}
    /\ vars = entry
    /\ whois \in [Reqs -> Records]
    /\ svc = whois
    /\ ret = [r \in Reqs |-> NoRet]
    /\ cancelled = [r \in Reqs |-> FALSE]
    /\ calls = [r \in Reqs |-> [c \in Calls |-> IF c = "WhoIs" THEN 1 ELSE 0]]
    /\ seen = [r \in Reqs |-> NoVars]
    /\ onceDone = 0
    /\ onceMu = 0
    /\ lc = 0
    /\ client = [r \in Reqs |-> 0]

NextGroups ==
    \E r \in Reqs :
        \/ SetName(r)
        \/ SetEmail(r)
        \/ SetGroups(r)
        \/ CallNext(r)

SpecGroups == InitGroups /\ [][NextGroups]_allvars

\* ------------------------------------------------------ claim vocabulary
\* How often ServeHTTP made a call for r.
Count(r, what) == calls[r][what]
Made(r, what) == calls[r][what] > 0
\* ServeHTTP has returned for r.
Done(r) == pc[r] = "done"
\* The next handler was invoked for r.
NextInvoked(r) == Made(r, "next")
\* The identity attributes the filter has written for r.
Written(r) == {k \in IdentityKeys : Made(r, k)}
\* The lookup of r came back with a valid record: the decision is Allow.
LookupOk(r) == whois[r].status = 200
\* The lookup of r came back with "not found".
LookupNotFound(r) == whois[r].status = 404
\* The request was terminated with a Deny or Error response.
Terminated(r) == ret[r].StatusCode \in {StatusForbidden, StatusInternalServerError}
\* The filter has handed r over to the next handler or has terminated it.
Decided(r) == pc[r] = "done"
\* The address of r is inside an overlay range.
FromOverlay(r) == InOverlay(remoteAddr[r])
\* The address of r parses and lies outside every overlay range.
OutsideOverlay(r) == WellFormed(remoteAddr[r]) /\ ~InOverlay(remoteAddr[r])
\* The address of r cannot be split or parsed.
Malformed(r) == pc[r] # "idle" /\ ~WellFormed(remoteAddr[r])
DenyNotOverlayMember == Error(StatusForbidden, errNotTailscaleIP)
DenyPeerUnknown == Error(StatusForbidden, errNotAuthorized)

\* ------------------------------------------------------------------- C1
\* C1: in the revisions with the range check (tsid.go, part_001), a request
\* whose peer address parses and lies outside every overlay range never
\* has the lookup service invoked, and when ServeHTTP has returned for it
\* the result is 403 "not a Tailscale IP", whatever the service would
\* have answered.
C1_OutsideOverlayDenied ==
    \A r \in Reqs :
        (rev \in TwoStage /\ OutsideOverlay(r)) =>
            /\ ~Made(r, "WhoIs")
            /\ svc[r] = NoAnswer
            /\ ~NextInvoked(r)
            /\ Done(r) => ret[r] = DenyNotOverlayMember

\* A request from 203.0.113.7:443 has been turned away by part_001.
C1_Witness ==
    /\ rev = Rev3
    /\ \E r \in Reqs :
        /\ remoteAddr[r] = AddrPublic /\ Done(r)
        /\ ret[r].StatusCode = StatusForbidden
        /\ ~Made(r, "WhoIs")

\* ------------------------------------------------------------------- C2
\* C2: in every state, the filter has written identity attributes for a
\* request only if its lookup came back with a valid record (Allow), and
\* the next handler is invoked only then; once an allowed request is handed
\* over, all the attributes of the revision are written; a request with a
\* Deny or Error result has returned without the next handler running and
\* with no identity attribute written or changed.
C2_ContextIffAllow ==
    \A r \in Reqs :
        /\ Written(r) # {} => LookupOk(r)
        /\ NextInvoked(r) => LookupOk(r)
        /\ (LookupOk(r) /\ Decided(r)) => (Written(r) = Published(rev) /\ NextInvoked(r))
        /\ (Done(r) /\ ~LookupOk(r)) => Terminated(r)
        /\ Terminated(r) =>
            /\ Done(r)
            /\ ~LookupOk(r)
            /\ ~NextInvoked(r)
            /\ Written(r) = {}
            /\ \A k \in IdentityKeys : vars[r][k] = entry[r][k]

\* One request was allowed and handed over with its attributes, another
\* was terminated after a failure of the service.
C2_Witness ==
    \E r, q \in Reqs :
        /\ Done(r) /\ LookupOk(r) /\ NextInvoked(r) /\ vars[r][KeyName] = "Alice"
        /\ Done(q) /\ whois[q] = AnsServerError /\ ret[q].StatusCode = StatusInternalServerError

\* ------------------------------------------------------------------- C3
\* The membership classification of a record, as the attribute holds it.
MembershipClass(ans) == IF ans.ShareeNode THEN "guest" ELSE "regular"
\* The value of an identity attribute that a record gives.
Attr(ans, k) ==
    IF k = KeyName THEN ans.DisplayName
    ELSE IF k = KeyEmail THEN ans.LoginName
    ELSE MembershipClass(ans)

\* C3 as stated: an allowed request from inside the overlay range ends up
\* with exactly three attributes written by the filter: display name, login
\* identifier and membership classification of its record.
C3_Original ==
    \A r \in Reqs :
        (FromOverlay(r) /\ LookupOk(r) /\ Decided(r)) =>
            /\ NextInvoked(r)
            /\ Written(r) = IdentityKeys
            /\ \A k \in IdentityKeys : vars[r][k] = Attr(whois[r], k)

\* C3 (amended): a request from inside the overlay range whose lookup came
\* back with a valid record is allowed, and when it is handed over its
\* context holds the display name under tailscale.name and the login
\* identifier under tailscale.email; the membership classification is
\* written (under tailscale.groups) only by the revision without the range
\* check; the revisions with the range check write exactly the two, and
\* the filter writes nothing else.
C3_AllowPublishes ==
    \A r \in Reqs :
        (FromOverlay(r) /\ LookupOk(r)) =>
            /\ ~Terminated(r)
            /\ Written(r) \subseteq Published(rev)
            /\ Decided(r) =>
                /\ NextInvoked(r)
                /\ Written(r) = Published(rev)
                /\ vars[r][KeyName] = whois[r].DisplayName
                /\ vars[r][KeyEmail] = whois[r].LoginName
                /\ vars[r][KeyGroups] =
                      IF rev = Rev1 THEN MembershipClass(whois[r]) ELSE entry[r][KeyGroups]
                /\ vars[r][KeyOther] = entry[r][KeyOther]

\* tsid.go has allowed Alice at 100.64.0.5:51820 and written two attributes.
C3_Witness ==
    \E r \in Reqs :
        /\ rev = Rev2 /\ Done(r) /\ remoteAddr[r] = AddrTailnet4 /\ whois[r] = AnsAlice
        /\ vars[r][KeyEmail] = "alice@example.com"
        /\ Written(r) = {KeyName, KeyEmail}

\* ------------------------------------------------------------------- C4
\* C4: a request from inside the overlay range whose lookup came back with
\* "not found" has returned 403 "not authorized", without the next handler
\* and with no attribute written or changed.
C4_NotFoundDenied ==
    \A r \in Reqs :
        (FromOverlay(r) /\ LookupNotFound(r)) =>
            /\ Done(r)
            /\ ret[r] = DenyPeerUnknown
            /\ ~NextInvoked(r)
            /\ Written(r) = {}
            /\ vars[r] = entry[r]

\* tsid.go has turned away a peer the service did not know, whose context
\* held values under the attribute names.
C4_Witness ==
    \E r \in Reqs :
        /\ rev = Rev2 /\ Done(r) /\ remoteAddr[r] = AddrTailnet4 /\ whois[r] = AnsNotFound
        /\ entry[r] = StaleVars

\* ------------------------------------------------------------------- C5
\* C5: in the revisions with the range check, a request whose peer address
\* has no port or no parsable IP never reaches the range check or the
\* lookup and gets no attribute written; when ServeHTTP has returned for
\* it the result is a 500, not a 403.
C5_MalformedIsError ==
    \A r \in Reqs :
        (rev \in TwoStage /\ Malformed(r)) =>
            /\ ~Made(r, "IsTailscaleIP")
            /\ ~Made(r, "WhoIs")
            /\ ~NextInvoked(r)
            /\ Written(r) = {}
            /\ vars[r] = entry[r]
            /\ Done(r) => /\ ret[r].StatusCode = StatusInternalServerError
                          /\ ret[r].StatusCode # StatusForbidden

\* "not-an-address" and "999.1.1.1:80" have both been answered.
C5_Witness ==
    \E r, q \in Reqs :
        /\ rev = Rev3
        /\ Done(r) /\ remoteAddr[r] = AddrNoPort /\ Made(r, "SplitHostPort")
        /\ ~Made(r, "ParseAddr")
        /\ Done(q) /\ remoteAddr[q] = AddrBadIP /\ Made(q, "ParseAddr")

\* ------------------------------------------------------------------- C6
\* C6: in the revisions with the range check, a request from inside the
\* overlay range whose lookup failed with anything but "not found" has
\* returned a 500, not a 403, and the next handler was not invoked.
C6_ServiceFailureIsError ==
    \A r \in Reqs :
        (rev \in TwoStage /\ FromOverlay(r) /\ Done(r) /\ Made(r, "WhoIs")
            /\ ~LookupOk(r) /\ ~LookupNotFound(r)) =>
            /\ ret[r].StatusCode = StatusInternalServerError
            /\ ~NextInvoked(r)

\* ------------------------------------------------------------------- C7
\* C7: when the next handler has been invoked for a request, the lookup had
\* come back with a record, tailscale.name and tailscale.email had each
\* been written once and before the invocation, and the next handler found
\* the display name and the login name of the record under them.
C7_PublishedBeforeNext ==
    \A r \in Reqs :
        /\ \A k \in IdentityKeys : Count(r, k) <= 1
        /\ NextInvoked(r) =>
            /\ LookupOk(r)
            /\ Count(r, "next") = 1
            /\ Done(r)
            /\ Count(r, KeyName) = 1
            /\ Count(r, KeyEmail) = 1
            /\ seen[r][KeyName] = whois[r].DisplayName
            /\ seen[r][KeyEmail] = whois[r].LoginName

\* The next handler of part_001 has run for Bob, whose context had stale
\* values under the attribute names.
C7_Witness ==
    \E r \in Reqs :
        /\ rev = Rev3 /\ NextInvoked(r) /\ entry[r] = StaleVars
        /\ seen[r][KeyName] = "Bob" /\ seen[r][KeyEmail] = "bob@example.com"

\* ------------------------------------------------------------------- C8
\* C8: in the revisions with the range check, a request denied because its
\* address is outside the overlay range and a request denied because the
\* service has no mapping for it get the same status, 403, while the
\* errors recorded for them differ.
C8_DenialsLookAlike ==
    \A r, q \in Reqs :
        (rev \in TwoStage /\ Done(r) /\ Done(q)
            /\ OutsideOverlay(r) /\ FromOverlay(q) /\ LookupNotFound(q)) =>
            /\ ret[r].StatusCode = StatusForbidden
            /\ ret[q].StatusCode = ret[r].StatusCode
            /\ ret[q].Err # ret[r].Err

\* One request of each kind has been denied by tsid.go.
C8_Witness ==
    \E r, q \in Reqs :
        /\ rev = Rev2 /\ Done(r) /\ Done(q)
        /\ remoteAddr[r] = AddrPublic
        /\ remoteAddr[q] = AddrTailnet6 /\ whois[q] = AnsNotFound

\* ------------------------------------------------------------------- C9
\* C9: under every interleaving, each variable of a request's context
\* holds the value the record of that request's own lookup gives it if the
\* filter has written it for that request, and its value on entry if not.
C9_NoCrossWrite ==
    \A r \in Reqs :
        \A k \in CtxKeys :
            vars[r][k] = IF k \in Written(r) THEN Attr(whois[r], k) ELSE entry[r][k]

\* Two requests with distinct endpoints and different records are both
\* between their first and their second SetVar.
C9_Witness ==
    \E r, q \in Reqs :
        /\ remoteAddr[r] # remoteAddr[q]
        /\ pc[r] = "SetEmail" /\ pc[q] = "SetEmail"
        /\ whois[r] = AnsAlice /\ whois[q] = AnsBob

\* ------------------------------------------------------------------ C10
\* C10: of two requests that carry the identical endpoint and whose lookups
\* the service answered differently, each made a lookup of its own, its
\* lookup came back with its own answer, and its result and attributes are
\* those of its own answer, whichever was served first: the record's values
\* and the next handler for a record, 403 "not authorized" for "not found",
\* and for every failure no next handler and an unchanged context.
C10_NoCaching ==
    \A q, r \in Reqs :
        (remoteAddr[r] = remoteAddr[q] /\ Done(r) /\ Done(q) /\ Made(r, "WhoIs")
            /\ Made(q, "WhoIs") /\ svc[r] # svc[q] /\ whois[q] # AnsCanceled) =>
            /\ Count(q, "WhoIs") = 1
            /\ whois[q] = svc[q]
            /\ IF svc[q].status = 200
               THEN /\ NextInvoked(q)
                    /\ vars[q][KeyName] = svc[q].DisplayName
                    /\ vars[q][KeyEmail] = svc[q].LoginName
               ELSE /\ ~NextInvoked(q)
                    /\ Terminated(q)
                    /\ vars[q] = entry[q]
                    /\ svc[q].status = 404 => ret[q] = DenyPeerUnknown

\* The endpoint was Alice's for one request and Bob's for the other, and
\* each has its own name in its context.
C10_Witness ==
    \E q, r \in Reqs :
        /\ remoteAddr[r] = AddrTailnet4 /\ remoteAddr[q] = AddrTailnet4
        /\ svc[r] = AnsAlice /\ Done(r) /\ vars[r][KeyName] = "Alice"
        /\ svc[q] = AnsBob /\ Done(q) /\ vars[q][KeyName] = "Bob"

\* ------------------------------------------------------------------ C11
\* C11: whenever the filter has written the membership classification for
\* a request, the lookup had come back with a record, the classification
\* is one class, "guest" if the node of the record is flagged as a sharee
\* node and "regular" if not, and two records with the same flag get the
\* same class whatever their display names and login names are.
C11_ClassFromShareeFlag ==
    /\ \A r \in Reqs :
        Made(r, KeyGroups) =>
            /\ LookupOk(r)
            /\ Len(groups(whois[r])) = 1
            /\ vars[r][KeyGroups] \in {"guest", "regular"}
            /\ vars[r][KeyGroups] = (IF whois[r].ShareeNode THEN "guest" ELSE "regular")
    /\ \A r, q \in Reqs :
        (Made(r, KeyGroups) /\ Made(q, KeyGroups)
            /\ whois[r].ShareeNode = whois[q].ShareeNode) =>
            vars[r][KeyGroups] = vars[q][KeyGroups]

\* Two requests of the same user, one from a shared node and one not, are
\* classified guest and regular.
C11_Witness ==
    \E r, q \in Reqs :
        /\ Done(r) /\ Done(q)
        /\ whois[r].DisplayName = whois[q].DisplayName
        /\ whois[r].LoginName = whois[q].LoginName
        /\ whois[r].LoginName = "bob@example.com"
        /\ whois[r].ShareeNode /\ ~whois[q].ShareeNode
        /\ vars[r][KeyGroups] = "guest" /\ vars[q][KeyGroups] = "regular"

\* ------------------------------------------------------------------ C12
\* The statements of ServeHTTP before the call of m.localClient().
BeforeLocalClient == {"idle", "SplitHostPort", "ParseAddr", "IsTailscaleIP", "localClient"}
\* The request has got a handle back from m.localClient().
HasClient(r) == rev = Rev3 /\ (pc[r] \in {"WhoIs", "in flight"} \/ Made(r, "WhoIs"))

\* C12: under every interleaving of the requests of one Middleware, the
\* client handle is built at most once and not before a request asks for
\* it; every request that got a handle from localClient got the one that
\* was built, never nil; and a request reads m.lc only after the function
\* of the Once has completed.
C12_ClientInitOnce ==
    /\ lc <= 1
    /\ (\A r \in Reqs : pc[r] \in BeforeLocalClient \/ ~Made(r, "IsTailscaleIP")
                          \/ ~FromOverlay(r)) => lc = 0
    /\ rev # Rev3 => (lc = 0 /\ onceDone = 0)
    /\ onceDone = 1 => lc = 1
    /\ \A r \in Reqs :
        /\ pc[r] = "return m.lc" => (onceDone = 1 /\ lc = 1)
        /\ HasClient(r) => (client[r] # 0 /\ client[r] = lc)
        /\ \A q \in Reqs : (HasClient(r) /\ HasClient(q)) => client[r] = client[q]

\* Two first requests found the Once not done; one of them has built the
\* client and holds it, the other still waits for the mutex.
C12_Witness ==
    \E r, q \in Reqs :
        /\ rev = Rev3 /\ r # q
        /\ HasClient(r) /\ client[r] = 1
        /\ pc[q] = "once.Lock" /\ onceDone = 1

\* ------------------------------------------------------------------ C13
\* C13: a request that was cancelled while its lookup was in flight never
\* has a record come back from the lookup, never gets an identity attribute
\* written and never has the next handler invoked; when ServeHTTP has
\* returned for it, the lookup had ended with the error of the context.
C13_CancelledLookupAborts ==
    \A r \in Reqs :
        cancelled[r] =>
            /\ ~LookupOk(r)
            /\ Written(r) = {}
            /\ ~NextInvoked(r)
            /\ Done(r) => whois[r] = AnsCanceled

\* ------------------------------------------------------------------ C14
\* The structured kind of a failed lookup: what the service signalled, not
\* the text that came with it.
FailureKind(ans) == ans.status

\* C14: two requests whose lookups failed with the same kind of failure
\* have the same result whatever the texts of the two failures are, and a
\* failure that is not "not found" gives a 500 even when its text holds
\* the words of the "not found" answer.
C14_OutcomeByFailureKind ==
    /\ \A r, q \in Reqs :
        (Done(r) /\ Done(q) /\ Made(r, "WhoIs") /\ Made(q, "WhoIs")
            /\ ~LookupOk(r) /\ ~LookupOk(q)
            /\ FailureKind(whois[r]) = FailureKind(whois[q])) =>
            ret[r].StatusCode = ret[q].StatusCode
    /\ \A r \in Reqs :
        (Done(r) /\ Made(r, "WhoIs") /\ ~LookupOk(r) /\ ~LookupNotFound(r)
            /\ ContainsNoMatch(whois[r])) =>
            ret[r].StatusCode = StatusInternalServerError

\* ------------------------------------------------------------------ C15
\* C15: in every state a request has had at most one lookup call made for
\* it, and exactly one when ServeHTTP has returned for a request whose
\* address parses and lies in an overlay range; and once a request has a
\* Deny or Error result, no step changes its result, makes a further call
\* for it or takes it out of its final state.
C15_OneLookupNoRetry ==
    /\ [](\A r \in Reqs :
            /\ Count(r, "WhoIs") <= 1
            /\ (Done(r) /\ FromOverlay(r)) => Count(r, "WhoIs") = 1
            /\ Terminated(r) => Done(r))
    /\ [][\A r \in Reqs :
            Terminated(r) =>
                /\ pc'[r] = pc[r]
                /\ ret'[r] = ret[r]
                /\ calls'[r] = calls[r]
                /\ whois'[r] = whois[r]]_allvars

\* tsid.go has answered a request from 100.64.0.5:51820 with a 500 after
\* one lookup that failed, while another request is still being served.
C15_Witness ==
    \E r, q \in Reqs :
        /\ rev = Rev2 /\ Done(r) /\ remoteAddr[r] = AddrTailnet4
        /\ whois[r] = AnsServerError /\ Count(r, "WhoIs") = 1
        /\ ret[r].StatusCode = StatusInternalServerError
        /\ pc[q] = "in flight"

C17_PublishOverwrites ==
    \A r \in Reqs :
        /\ \A k \in CtxKeys \ Published(rev) : vars[r][k] = entry[r][k]
        /\ (LookupOk(r) /\ Done(r)) =>
            \A k \in Published(rev) :
                /\ vars[r][k] = Attr(whois[r], k)
                /\ seen[r][k] = Attr(whois[r], k)

\* part_001 has allowed Alice, whose context came with other values under
\* tailscale.name and tailscale.email and with a key of an earlier stage.
C17_Witness ==
    \E r \in Reqs :
        /\ rev = Rev3 /\ Done(r) /\ whois[r] = AnsAlice
        /\ entry[r][KeyName] = "stale" /\ entry[r][KeyEmail] = "stale"
        /\ vars[r][KeyName] = "Alice" /\ vars[r][KeyEmail] = "alice@example.com"
        /\ vars[r][KeyOther] = "set upstream"

\* ------------------------------------------------------------------ C18
\* C18: a request with a Deny or Error result (its address could not be
\* split or parsed, lies outside the overlay ranges, is not known to the
\* service, or the service failed) has every key of its context at the
\* value it had on entry, values of earlier stages under the attribute
\* names included; and whenever a step changes the context of a request,
\* the lookup of that request had come back with a record.
C18_FailureLeavesContext ==
    /\ [](\A r \in Reqs :
            /\ Terminated(r) => (vars[r] = entry[r] /\ seen[r] = NoVars)
            /\ ~LookupOk(r) => vars[r] = entry[r])
    /\ [][\A r \in Reqs : vars'[r] # vars[r] => (LookupOk(r) /\ ~Terminated(r))]_allvars

\* tsid.go has answered "999.1.1.1:80" and a request whose lookup failed
\* with a 500 each; both contexts came with values under the attribute
\* names.
C18_Witness ==
    \E r, q \in Reqs :
        /\ rev = Rev2 /\ Done(r) /\ Done(q)
        /\ entry[r] = StaleVars /\ entry[q] = StaleVars
        /\ remoteAddr[r] = AddrBadIP /\ ret[r].StatusCode = StatusInternalServerError
        /\ whois[q] = AnsServerError /\ ret[q].StatusCode = StatusInternalServerError
        /\ vars[q][KeyName] = "stale"

====
